---- MODULE Spec2Model ----
(***************************************************************************)
(* Model of the document-tool caching and routing subsystem of the         *)
(* Agentic-RAG assistant: src/app.py (UI handlers and startup),            *)
(* src/indexer.py (per-document tool builder, document cache, manifest)    *)
(* and src/agent.py (the ask turn).                                        *)
(*                                                                         *)
(* A document is a PDF file; its identity is the stem of its filename.     *)
(* Stems are the numbers 1..NumNames.  The content of a file is "v1",      *)
(* "v2" (a revision of the same-named document) or "bad" (a file the       *)
(* segmentation service, SimpleDirectoryReader.load_data, cannot read).    *)
(***************************************************************************)
EXTENDS Integers, Sequences, FiniteSets, TLC

\* ---- bounds of the model ------------------------------------------------
NumNames == 6           \* distinct filename stems that may be uploaded
NumShortNames == 2      \* stems 1..NumShortNames are uploaded in any combination
MaxShortBatch == 2      \* length of the batches drawn freely from ShortFiles
NumBadNames == 1        \* stems 1..NumBadNames also exist as unreadable PDFs
NumRevisedNames == 1    \* the last NumRevisedNames short stems also exist revised
MaxCorrupt == 1         \* partially written objects in storage/ at any one time
NumListingOrders == 2   \* directory listing orders the file system may use

\* ---- program constants --------------------------------------------------
MAX_DOCS == 5           \* app.py: len(existing) + len(files) > 5
TOP_K == 2              \* app.py: get_tool_retriever(tool_index, top_k=2)

Stems == 1..NumNames

ContentsOf(n) ==
    {"v1"} \cup (IF n <= NumBadNames THEN {"bad"} ELSE {})
           \cup (IF n <= NumShortNames /\ n > NumShortNames - NumRevisedNames
                 THEN {"v2"} ELSE {})

\* The files a user may pick in the upload widget.  file.name is a path in a
\* temporary upload directory; only its basename (stem + ".pdf") is used.
Files == UNION {{[stem |-> n, content |-> c] : c \in ContentsOf(n)} : n \in Stems}

ShortFiles == {f \in Files : f.stem <= NumShortNames}

\* The readable documents i..j, in this order.
Run(i, j) == [x \in 1..(j - i + 1) |-> [stem |-> i + x - 1, content |-> "v1"]]

\* The batches handed to upload_files: no files at all; every sequence of at
\* most MaxShortBatch files of ShortFiles (the same basename may occur twice,
\* readable and unreadable files may mix); the other documents in runs from
\* the first of them on; and the long batches 1..k.
Batches ==
    {<<>>}
    \cup UNION {[1..k -> ShortFiles] : k \in 1..MaxShortBatch}
    \cup {Run(NumShortNames + 1, j) : j \in (NumShortNames + 1)..NumNames}
    \cup {Run(1, k) : k \in (MaxShortBatch + 1)..NumNames}

VARIABLES
    proc,        \* "down" | "serving": the app.py process
    fsOrder,     \* the order in which the file system lists a directory
    dataRoot,    \* data/: stem -> content of data/<stem>.pdf, or "none"
    storage,     \* TRUE iff the directory storage/ exists
    manifest,    \* storage/manifest.json: [state, files]
    cache,       \* storage/<stem>/{vector,summary}: [vector, summary, src]
    agent,       \* global agent of app.py: [bound, tools, top_k]
    tool_index,  \* global tool_index of app.py: [bound, tools]
    last,        \* the last operation: its result and what it called
    tasks        \* the handlers in progress in the worker threads of the UI

vars == <<proc, fsOrder, dataRoot, storage, manifest, cache, agent, tool_index, last,
          tasks>>

\* ---- values ---------------------------------------------------------------
NoManifest == [state |-> "absent", files |-> <<>>]
NoEntry == [vector |-> "missing", summary |-> "missing", src |-> "none"]
NoAgent == [bound |-> FALSE, tools |-> <<>>, top_k |-> 0]
NoToolIndex == [bound |-> FALSE, tools |-> <<>>]
NoFault == "none"

\* What an operation hands back to its caller.  kind "raised": an exception
\* left the operation uncaught (exc names it).
Res(kind, count, names, exc) ==
    [kind |-> kind, count |-> count, names |-> names, exc |-> exc]

Range(s) == {s[i] : i \in 1..Len(s)}

\* F applied to the value of x, which is computed once (a LET definition is
\* computed again at each of its uses).
Let(x, F(_)) == CHOOSE y \in {F(v) : v \in {x}} : TRUE

\* ---- src/indexer.py -------------------------------------------------------

\* A path data/<stem>.pdf.
DataPath(n) == [dir |-> "data", stem |-> n, ext |-> "pdf"]

\* get_doc: Path(pdf_path).stem, the filename without directory and extension.
get_doc(pdf_path) == pdf_path.stem

\* Position of stem n in directory listing order k.  The order of
\* DATA_DIR.glob("*.pdf") is the file system's: odd k list the stems
\* ascending, even k descending, each rotated by (k - 1) \div 2 places.
Rank(k, n) ==
    IF k % 2 = 1 THEN (n - 1 + ((k - 1) \div 2)) % NumNames
    ELSE (NumNames - n + ((k - 1) \div 2)) % NumNames

RECURSIVE ListDir(_, _)
ListDir(S, k) ==
    IF S = {} THEN <<>>
    ELSE LET n == CHOOSE x \in S : \A y \in S : Rank(k, x) <= Rank(k, y)
         IN  <<DataPath(n)>> \o ListDir(S \ {n}, k)

\* The documents of data root r.
Present(r) == {n \in Stems : r[n] # "none"}

\* DATA_DIR.glob("*.pdf") over data root r, listed in order k.
glob_pdf(r, k) == ListDir(Present(r), k)

\* The two capabilities of a document, named vector_<doc> and summary_<doc>.
\* build_doc_tools and the cache-hit branch of rebuild_tools_for_document
\* construct them with the same names.
DocTools(doc_name) ==
    << [variant |-> "vector", doc |-> doc_name],
       [variant |-> "summary", doc |-> doc_name] >>

\* build_doc_tools: segmentation (load_data, SentenceSplitter) and both
\* indices.  An unreadable PDF makes load_data raise.
build_doc_tools(pdf_path, content) ==
    IF content = "bad"
    THEN [exc |-> "DocumentLoadError", tools |-> <<>>, src |-> "none"]
    ELSE [exc |-> "none", tools |-> DocTools(get_doc(pdf_path)), src |-> content]

\* A save_doc_index that persists the vector subtree only.
save_doc_index_vector_only(e, src, pt) ==
    IF pt = "vector"
    THEN [exc |-> "PersistError", entry |-> [e EXCEPT !.vector = "corrupt", !.src = src]]
    ELSE [exc |-> "none", entry |-> [e EXCEPT !.vector = "ok", !.src = src]]

\* save_doc_index: persist the vector subtree, then the summary subtree, of
\* entry e.  A write fault at point pt leaves that subtree partially written
\* ("corrupt") and raises; the summary subtree is not reached after a fault on
\* the vector subtree.
save_doc_index(e, src, pt) ==
    IF pt = "vector"
    THEN [exc |-> "PersistError", entry |-> [e EXCEPT !.vector = "corrupt", !.src = src]]
    ELSE IF pt = "summary"
    THEN [exc |-> "PersistError",
          entry |-> [e EXCEPT !.vector = "ok", !.summary = "corrupt", !.src = src]]
    ELSE [exc |-> "none", entry |-> [vector |-> "ok", summary |-> "ok", src |-> src]]

\* A load_doc_index without the try block around load_index_from_storage.
load_doc_index_no_except(c, doc_name) ==
    IF c[doc_name].vector = "missing" \/ c[doc_name].summary = "missing"
    THEN "absent"
    ELSE IF c[doc_name].vector = "corrupt" \/ c[doc_name].summary = "corrupt"
    THEN "raised"
    ELSE "loaded"

\* load_doc_index: None ("absent") when a subtree does not exist, or when
\* load_index_from_storage raises on a subtree that does not deserialize (the
\* except branch); otherwise the two cached indices.
load_doc_index(c, doc_name) ==
    IF c[doc_name].vector = "missing" \/ c[doc_name].summary = "missing"
    THEN "absent"
    ELSE IF c[doc_name].vector = "corrupt" \/ c[doc_name].summary = "corrupt"
    THEN "absent"
    ELSE "loaded"

\* The except branch of load_doc_index prints "Error loading index for ...":
\* 1 iff both subtrees exist and one does not deserialize.
load_doc_index_logs(c, doc_name) ==
    IF /\ c[doc_name].vector # "missing" /\ c[doc_name].summary # "missing"
       /\ (c[doc_name].vector = "corrupt" \/ c[doc_name].summary = "corrupt")
    THEN 1 ELSE 0

\* load_manifest: the stored list, an empty list when there is no manifest
\* file; json.load raises on a file that is not JSON.
load_manifest(m) ==
    IF m.state = "absent" THEN [exc |-> "none", indexed_files |-> <<>>]
    ELSE IF m.state = "corrupt" THEN [exc |-> "ManifestReadError", indexed_files |-> <<>>]
    ELSE [exc |-> "none", indexed_files |-> m.files]

\* save_manifest: mkdir storage/, open the file for writing (truncating it)
\* and dump the list.  A write fault leaves a truncated file and raises.
save_manifest(indexed_files, pt) ==
    IF pt = "manifest"
    THEN [exc |-> "PersistError", manifest |-> [state |-> "corrupt", files |-> <<>>]]
    ELSE [exc |-> "none", manifest |-> [state |-> "ok", files |-> indexed_files]]

\* get_indexed_files: load_manifest().get("indexed_files", []).
get_indexed_files(m) == load_manifest(m)

\* The write fault ft ("vector" or "summary") strikes the first cache write of
\* an operation: wrote is the number of cache writes made so far.
FaultAt(ft, wrote) ==
    IF wrote = 0 /\ ft \in {"vector", "summary"} THEN ft ELSE "none"

\* A rebuild_tools_for_document that takes a cache entry for valid only when
\* it was built from the content the document has now.
rebuild_tools_for_document_content_keyed(c, pdf_path, content, pt) ==
    Let(get_doc(pdf_path), LAMBDA doc_name :
        IF load_doc_index(c, doc_name) = "loaded" /\ c[doc_name].src = content
        THEN [exc |-> "none", tools |-> DocTools(doc_name), cache |-> c,
              seg |-> 0, wrote |-> 0, struck |-> 0, logged |-> 0]
        ELSE Let(build_doc_tools(pdf_path, content), LAMBDA built :
            IF built.exc # "none"
            THEN [exc |-> built.exc, tools |-> <<>>, cache |-> c,
                  seg |-> 1, wrote |-> 0, struck |-> 0,
                  logged |-> load_doc_index_logs(c, doc_name)]
            ELSE Let(save_doc_index(c[doc_name], built.src, pt), LAMBDA saved :
                [exc |-> saved.exc,
                 tools |-> IF saved.exc = "none" THEN built.tools ELSE <<>>,
                 cache |-> [c EXCEPT ![doc_name] = saved.entry],
                 seg |-> 1, wrote |-> 1,
                 struck |-> IF saved.exc = "none" THEN 0 ELSE 1,
                 logged |-> load_doc_index_logs(c, doc_name)])))

\* rebuild_tools_for_document on cache c: a cache hit restores the indices
\* and builds nothing; a miss builds the document and saves its indices.
\* Result: exc, the tools, the cache afterwards, seg = 1 iff the segmentation
\* service was invoked, wrote = 1 iff the cache was written, struck = 1 iff
\* the write fault pt struck, logged = 1 iff the cache lookup printed an error.
rebuild_tools_for_document(c, pdf_path, content, pt) ==
    Let(get_doc(pdf_path), LAMBDA doc_name :
    Let(load_doc_index(c, doc_name), LAMBDA cached :
        IF cached = "raised"
        THEN [exc |-> "CacheCorruptionError", tools |-> <<>>, cache |-> c,
              seg |-> 0, wrote |-> 0, struck |-> 0, logged |-> 0]
        ELSE IF cached = "loaded"
        THEN [exc |-> "none", tools |-> DocTools(doc_name), cache |-> c,
              seg |-> 0, wrote |-> 0, struck |-> 0, logged |-> 0]
        ELSE Let(build_doc_tools(pdf_path, content), LAMBDA built :
            IF built.exc # "none"
            THEN [exc |-> built.exc, tools |-> <<>>, cache |-> c,
                  seg |-> 1, wrote |-> 0, struck |-> 0,
                  logged |-> load_doc_index_logs(c, doc_name)]
            ELSE Let(save_doc_index(c[doc_name], built.src, pt), LAMBDA saved :
                [exc |-> saved.exc,
                 tools |-> IF saved.exc = "none" THEN built.tools ELSE <<>>,
                 cache |-> [c EXCEPT ![doc_name] = saved.entry],
                 seg |-> 1, wrote |-> 1,
                 struck |-> IF saved.exc = "none" THEN 0 ELSE 1,
                 logged |-> load_doc_index_logs(c, doc_name)]))))

\* The loop of build_all_doc_tools from position i on, with accumulator b:
\* the first exception ends the loop and leaves the function.
RECURSIVE BuildLoop(_, _, _, _, _)
BuildLoop(pdf_paths, r, ft, i, b) ==
    IF i > Len(pdf_paths) \/ b.exc # "none" THEN b
    ELSE Let(rebuild_tools_for_document(b.cache, pdf_paths[i], r[pdf_paths[i].stem],
                                        FaultAt(ft, b.wrote)), LAMBDA t :
         Let([exc |-> t.exc,
              all_tools |-> b.all_tools \o t.tools,
              indexed_files |-> IF t.exc = "none"
                                THEN Append(b.indexed_files, get_doc(pdf_paths[i]))
                                ELSE b.indexed_files,
              cache |-> t.cache,
              seg |-> b.seg + t.seg,
              wrote |-> b.wrote + t.wrote,
              struck |-> b.struck + t.struck,
              logged |-> b.logged + t.logged], LAMBDA nb :
         BuildLoop(pdf_paths, r, ft, i + 1, nb)))

\* A build_all_doc_tools that merges the new identities into the stored
\* manifest instead of replacing it.
build_all_doc_tools_merge(pdf_paths, r, st, m, c, ft) ==
    Let(BuildLoop(pdf_paths, r, ft, 1,
            [exc |-> "none", all_tools |-> <<>>, indexed_files |-> <<>>,
             cache |-> c, seg |-> 0, wrote |-> 0, struck |-> 0, logged |-> 0]),
        LAMBDA b :
        IF b.exc # "none"
        THEN [exc |-> b.exc, all_tools |-> <<>>, cache |-> b.cache, manifest |-> m,
              storage |-> st \/ b.wrote > 0, seg |-> b.seg, struck |-> b.struck,
              logged |-> b.logged]
        ELSE Let(save_manifest(load_manifest(m).indexed_files \o b.indexed_files, ft),
                 LAMBDA sm :
             [exc |-> sm.exc,
              all_tools |-> IF sm.exc = "none" THEN b.all_tools ELSE <<>>,
              cache |-> b.cache, manifest |-> sm.manifest, storage |-> TRUE,
              seg |-> b.seg,
              struck |-> b.struck + (IF sm.exc = "none" THEN 0 ELSE 1),
              logged |-> b.logged]))

\* build_all_doc_tools: rebuild every document in turn, then save the
\* manifest.  Result: exc, all_tools, and the cache, manifest and storage
\* directory afterwards.
build_all_doc_tools(pdf_paths, r, st, m, c, ft) ==
    Let(BuildLoop(pdf_paths, r, ft, 1,
            [exc |-> "none", all_tools |-> <<>>, indexed_files |-> <<>>,
             cache |-> c, seg |-> 0, wrote |-> 0, struck |-> 0, logged |-> 0]),
        LAMBDA b :
        IF b.exc # "none"
        THEN [exc |-> b.exc, all_tools |-> <<>>, cache |-> b.cache, manifest |-> m,
              storage |-> st \/ b.wrote > 0, seg |-> b.seg, struck |-> b.struck,
              logged |-> b.logged]
        ELSE Let(save_manifest(b.indexed_files, ft), LAMBDA sm :
             [exc |-> sm.exc,
              all_tools |-> IF sm.exc = "none" THEN b.all_tools ELSE <<>>,
              cache |-> b.cache, manifest |-> sm.manifest, storage |-> TRUE,
              seg |-> b.seg,
              struck |-> b.struck + (IF sm.exc = "none" THEN 0 ELSE 1),
              logged |-> b.logged]))

\* create_tool_index: an ObjectIndex over the tools.
create_tool_index(tools) == [bound |-> TRUE, tools |-> tools]

\* get_tool_retriever and create_agent: a FunctionAgent whose tool retriever
\* returns the top_k most similar tools of the tool index.
create_agent(ti, top_k) == [bound |-> TRUE, tools |-> ti.tools, top_k |-> top_k]

\* ---- src/app.py -----------------------------------------------------------

\* get_status: the manifest's list, or the "no documents" message.
get_status(m) ==
    LET indexed == get_indexed_files(m)
    IN  IF indexed.exc # "none" THEN Res("raised", 0, <<>>, indexed.exc)
        ELSE IF indexed.indexed_files # <<>>
        THEN Res("indexed", Len(indexed.indexed_files), indexed.indexed_files, "none")
        ELSE Res("nodocs", 0, <<>>, "none")

\* initialize_agent over data root r, listed in order k, under write fault ft.
\* An exception of build_all_doc_tools leaves the function before the globals
\* are assigned.
initialize_agent(r, st, m, c, ag, ti, k, ft) ==
    Let(glob_pdf(r, k), LAMBDA pdf_files :
        IF pdf_files = <<>>
        THEN [res |-> Res("nodocs", 0, <<>>, "none"),
              agent |-> NoAgent, tool_index |-> NoToolIndex,
              storage |-> st, manifest |-> m, cache |-> c, seg |-> 0, struck |-> 0,
              logged |-> 0]
        ELSE Let(build_all_doc_tools(pdf_files, r, st, m, c, ft), LAMBDA b :
            IF b.exc # "none"
            THEN [res |-> Res("raised", 0, <<>>, b.exc),
                  agent |-> ag, tool_index |-> ti,
                  storage |-> b.storage, manifest |-> b.manifest, cache |-> b.cache,
                  seg |-> b.seg, struck |-> b.struck, logged |-> b.logged]
            ELSE Let(create_tool_index(b.all_tools), LAMBDA new_index :
                 [res |-> get_status(b.manifest),
                  agent |-> create_agent(new_index, TOP_K), tool_index |-> new_index,
                  storage |-> b.storage, manifest |-> b.manifest, cache |-> b.cache,
                  seg |-> b.seg, struck |-> b.struck, logged |-> b.logged])))

\* A copy loop that leaves after its first file.
CopyAll_first_only(r, files, i) ==
    IF i > Len(files) THEN r ELSE [r EXCEPT ![files[i].stem] = files[i].content]

\* The copy loop of upload_files: each file goes to data/<basename>, a later
\* file of the same basename overwriting an earlier one.
RECURSIVE CopyAll(_, _, _)
CopyAll(r, files, i) ==
    IF i > Len(files) THEN r
    ELSE Let([r EXCEPT ![files[i].stem] = files[i].content], LAMBDA nr :
         CopyAll(nr, files, i + 1))

\* An upload_files that saves the files before it checks the limit.
upload_files_copy_first(files, r, st, m, c, ag, ti, k, ft) ==
    IF files = <<>>
    THEN [res |-> get_status(m), dataRoot |-> r, agent |-> ag, tool_index |-> ti,
          storage |-> st, manifest |-> m, cache |-> c, seg |-> 0, struck |-> 0,
          logged |-> 0]
    ELSE Let(CopyAll(r, files, 1), LAMBDA copied :
        IF Cardinality(Present(r)) + Len(files) > MAX_DOCS
        THEN [res |-> Res("capacity", Cardinality(Present(r)), <<>>, "none"),
              dataRoot |-> copied, agent |-> ag, tool_index |-> ti,
              storage |-> st, manifest |-> m, cache |-> c, seg |-> 0, struck |-> 0,
              logged |-> 0]
        ELSE Let(initialize_agent(copied, st, m, c, ag, ti, k, ft), LAMBDA init :
             [res |-> init.res, dataRoot |-> copied,
              agent |-> init.agent, tool_index |-> init.tool_index,
              storage |-> init.storage, manifest |-> init.manifest,
              cache |-> init.cache, seg |-> init.seg, struck |-> init.struck,
              logged |-> init.logged]))

\* An upload_files whose limit check leaves out the size of the batch.
upload_files_existing_only(files, r, st, m, c, ag, ti, k, ft) ==
    IF files = <<>>
    THEN [res |-> get_status(m), dataRoot |-> r, agent |-> ag, tool_index |-> ti,
          storage |-> st, manifest |-> m, cache |-> c, seg |-> 0, struck |-> 0,
          logged |-> 0]
    ELSE IF Cardinality(Present(r)) > MAX_DOCS
    THEN [res |-> Res("capacity", Cardinality(Present(r)), <<>>, "none"),
          dataRoot |-> r, agent |-> ag, tool_index |-> ti,
          storage |-> st, manifest |-> m, cache |-> c, seg |-> 0, struck |-> 0,
          logged |-> 0]
    ELSE Let(CopyAll(r, files, 1), LAMBDA copied :
         Let(initialize_agent(copied, st, m, c, ag, ti, k, ft), LAMBDA init :
         [res |-> init.res, dataRoot |-> copied,
          agent |-> init.agent, tool_index |-> init.tool_index,
          storage |-> init.storage, manifest |-> init.manifest,
          cache |-> init.cache, seg |-> init.seg, struck |-> init.struck,
          logged |-> init.logged]))

\* An upload_files without the "if not files" test: an empty batch goes on to
\* initialize_agent.
upload_files_no_empty_check(files, r, st, m, c, ag, ti, k, ft) ==
    Let(glob_pdf(r, k), LAMBDA existing :
        IF Len(existing) + Len(files) > MAX_DOCS
        THEN [res |-> Res("capacity", Len(existing), <<>>, "none"),
              dataRoot |-> r, agent |-> ag, tool_index |-> ti,
              storage |-> st, manifest |-> m, cache |-> c, seg |-> 0, struck |-> 0,
              logged |-> 0]
        ELSE Let(CopyAll(r, files, 1), LAMBDA copied :
             Let(initialize_agent(copied, st, m, c, ag, ti, k, ft), LAMBDA init :
             [res |-> init.res, dataRoot |-> copied,
              agent |-> init.agent, tool_index |-> init.tool_index,
              storage |-> init.storage, manifest |-> init.manifest,
              cache |-> init.cache, seg |-> init.seg, struck |-> init.struck,
              logged |-> init.logged])))

\* upload_files(files).
upload_files(files, r, st, m, c, ag, ti, k, ft) ==
    IF files = <<>>
    THEN [res |-> get_status(m), dataRoot |-> r, agent |-> ag, tool_index |-> ti,
          storage |-> st, manifest |-> m, cache |-> c, seg |-> 0, struck |-> 0,
          logged |-> 0]
    ELSE Let(glob_pdf(r, k), LAMBDA existing :
        IF Len(existing) + Len(files) > MAX_DOCS
        THEN [res |-> Res("capacity", Len(existing), <<>>, "none"),
              dataRoot |-> r, agent |-> ag, tool_index |-> ti,
              storage |-> st, manifest |-> m, cache |-> c, seg |-> 0, struck |-> 0,
              logged |-> 0]
        ELSE Let(CopyAll(r, files, 1), LAMBDA copied :
             Let(initialize_agent(copied, st, m, c, ag, ti, k, ft), LAMBDA init :
             [res |-> init.res, dataRoot |-> copied,
              agent |-> init.agent, tool_index |-> init.tool_index,
              storage |-> init.storage, manifest |-> init.manifest,
              cache |-> init.cache, seg |-> init.seg, struck |-> init.struck,
              logged |-> init.logged])))

\* A clear_documents that leaves storage/ in place.
clear_documents_keep_storage(r, st, m, c) ==
    [res |-> Res("cleared", Cardinality(Present(r)), <<>>, "none"),
     dataRoot |-> [n \in Stems |-> "none"],
     storage |-> st, manifest |-> m, cache |-> c,
     agent |-> NoAgent, tool_index |-> NoToolIndex]

\* clear_documents: unlink every PDF, remove storage/ if it exists, unbind.
\* The message is fixed; count records how many files were unlinked.
clear_documents(r, st, m, c) ==
    [res |-> Res("cleared", Cardinality(Present(r)), <<>>, "none"),
     dataRoot |-> [n \in Stems |-> "none"],
     storage |-> FALSE,
     manifest |-> IF st THEN NoManifest ELSE m,
     cache |-> IF st THEN [n \in Stems |-> NoEntry] ELSE c,
     agent |-> NoAgent, tool_index |-> NoToolIndex]

\* The turns an agent run can take: it completes, or agent.run raises.
Turns == {"ok", "llm_error", "network_error", "malformed_tool_response"}

\* A respond without the "agent is None" test: chat(None, message) raises
\* inside the try block.
respond_no_check(ag, turn) ==
    IF ag.bound /\ turn = "ok" THEN [res |-> Res("answer", 0, <<>>, "none"), llm |-> 1]
    ELSE [res |-> Res("error_text", 0, <<>>, "none"), llm |-> IF ag.bound THEN 1 ELSE 0]

\* A respond without the try block around the agent run.
respond_no_catch(ag, turn) ==
    IF ~ag.bound THEN [res |-> Res("please_upload", 0, <<>>, "none"), llm |-> 0]
    ELSE IF turn = "ok" THEN [res |-> Res("answer", 0, <<>>, "none"), llm |-> 1]
    ELSE [res |-> Res("raised", 0, <<>>, turn), llm |-> 1]

\* respond(message, history): without an agent the fixed message; otherwise
\* chat(agent, message), any Exception of which becomes an "Error: ..." text.
\* llm = 1 iff the language-model provider was invoked.
respond(ag, turn) ==
    IF ~ag.bound THEN [res |-> Res("please_upload", 0, <<>>, "none"), llm |-> 0]
    ELSE IF turn = "ok" THEN [res |-> Res("answer", 0, <<>>, "none"), llm |-> 1]
    ELSE [res |-> Res("error_text", 0, <<>>, "none"), llm |-> 1]

\* ---- the state machine: one handler at a time ------------------------------

\* seg: invocations of the segmentation service, llm: invocations of the
\* language-model provider, logged: cache load errors printed.
Last(op, res, seg, llm, logged) ==
    [op |-> op, res |-> res, seg |-> seg, llm |-> llm, logged |-> logged]

\* The partially written objects in storage/.
Corrupt ==
    {n \in Stems : cache[n].vector = "corrupt" \/ cache[n].summary = "corrupt"}
    \cup (IF manifest.state = "corrupt" THEN {0} ELSE {})

\* The write faults that may strike an operation.
FaultChoices ==
    {NoFault}
    \cup (IF Cardinality(Corrupt) < MaxCorrupt
          THEN {"vector", "summary", "manifest"} ELSE {})

\* A handler thread of upload_files: where it is (pc), its argument files and
\* the local all_tools of initialize_agent.
IdleUpload == [pc |-> "idle", files |-> <<>>, all_tools |-> <<>>]

\* The handler thread of clear_documents.
IdleClear == [pc |-> "idle"]

\* The handler thread of respond: the agent object handed to chat, the
\* capabilities retrieved for the question and the capabilities invoked.
IdleAsk == [pc |-> "idle", agent |-> NoAgent, candidates |-> <<>>, invoked |-> <<>>]

\* No handler is in progress.
IdleTasks == [u1 |-> IdleUpload, u2 |-> IdleUpload, c |-> IdleClear, a |-> IdleAsk]

\* A fresh checkout: no documents, no storage, the process not started.
Init ==
    /\ proc = "down"
    /\ fsOrder \in 1..NumListingOrders
    /\ dataRoot = [n \in Stems |-> "none"]
    /\ storage = FALSE
    /\ manifest = NoManifest
    /\ cache = [n \in Stems |-> NoEntry]
    /\ agent = NoAgent
    /\ tool_index = NoToolIndex
    /\ last = Last("none", Res("none", 0, <<>>, "none"), 0, 0, 0)
    /\ tasks = IdleTasks

\* python app.py: the module body (the globals start as None, data/ is made,
\* the status box is filled by get_status()), then initialize_agent() and
\* app.launch().  An exception in either ends the process.
Startup ==
    /\ proc = "down"
    /\ UNCHANGED tasks
    /\ \E ft \in FaultChoices :
         \E box \in {get_status(manifest)},
            init \in {initialize_agent(dataRoot, storage, manifest, cache,
                                       NoAgent, NoToolIndex, fsOrder, ft)} :
             IF box.kind = "raised"
             THEN /\ ft = NoFault
                  /\ last' = Last("startup", box, 0, 0, 0)
                  /\ UNCHANGED <<proc, fsOrder, dataRoot, storage, manifest, cache, agent,
                                 tool_index>>
             ELSE /\ ft = NoFault \/ init.struck = 1
                  /\ proc' = IF init.res.kind = "raised" THEN "down" ELSE "serving"
                  /\ agent' = init.agent
                  /\ tool_index' = init.tool_index
                  /\ storage' = init.storage
                  /\ manifest' = init.manifest
                  /\ cache' = init.cache
                  /\ last' = Last("startup", init.res, init.seg, 0, init.logged)
                  /\ UNCHANGED <<fsOrder, dataRoot>>

\* The process is stopped: the globals agent and tool_index are gone, the
\* data root and storage/ stay on disk.
Shutdown ==
    /\ proc = "serving"
    /\ UNCHANGED tasks
    /\ proc' = "down"
    /\ agent' = NoAgent
    /\ tool_index' = NoToolIndex
    /\ last' = Last("shutdown", Res("none", 0, <<>>, "none"), 0, 0, 0)
    /\ UNCHANGED <<fsOrder, dataRoot, storage, manifest, cache>>

\* upload_btn.click -> upload_files(files).
UploadFiles ==
    /\ proc = "serving"
    /\ UNCHANGED tasks
    /\ \E files \in Batches, ft \in FaultChoices :
         \E u \in {upload_files(files, dataRoot, storage, manifest, cache,
                                agent, tool_index, fsOrder, ft)} :
             /\ ft = NoFault \/ u.struck = 1
             /\ dataRoot' = u.dataRoot
             /\ storage' = u.storage
             /\ manifest' = u.manifest
             /\ cache' = u.cache
             /\ agent' = u.agent
             /\ tool_index' = u.tool_index
             /\ last' = Last("upload", u.res, u.seg, 0, u.logged)
             /\ UNCHANGED <<proc, fsOrder>>

\* clear_btn.click -> clear_documents().
ClearDocuments ==
    /\ proc = "serving"
    /\ UNCHANGED tasks
    /\ \E cl \in {clear_documents(dataRoot, storage, manifest, cache)} :
           /\ dataRoot' = cl.dataRoot
           /\ storage' = cl.storage
           /\ manifest' = cl.manifest
           /\ cache' = cl.cache
           /\ agent' = cl.agent
           /\ tool_index' = cl.tool_index
           /\ last' = Last("clear", cl.res, 0, 0, 0)
           /\ UNCHANGED <<proc, fsOrder>>

\* A read of the status: get_status().
GetStatus ==
    /\ proc = "serving"
    /\ UNCHANGED tasks
    /\ last' = Last("status", get_status(manifest), 0, 0, 0)
    /\ UNCHANGED <<proc, fsOrder, dataRoot, storage, manifest, cache, agent, tool_index>>

\* ChatInterface -> respond(message, history).
Respond ==
    /\ proc = "serving"
    /\ UNCHANGED tasks
    /\ \E turn \in Turns :
         \E a \in {respond(agent, turn)} :
             /\ last' = Last("ask", a.res, 0, a.llm, 0)
             /\ UNCHANGED <<proc, fsOrder, dataRoot, storage, manifest, cache, agent,
                            tool_index>>

Next ==
    \/ Startup
    \/ Shutdown
    \/ UploadFiles
    \/ ClearDocuments
    \/ GetStatus
    \/ Respond

Spec == Init /\ [][Next]_vars

\* ---- the state machine: handlers in worker threads -------------------------
\* upload_btn.click, clear_btn.click and the ChatInterface each hand their
\* function to a worker thread; nothing in app.py holds a lock, so the steps
\* of the handlers interleave.  SpecConc has two upload_files threads (u1, u2)
\* and one clear_documents thread (c), between whose steps a whole respond
\* or get_status may run.  SpecTurn has one upload_files thread, the
\* clear_documents thread and the respond thread (a) with the steps of its
\* agent turn.  Every document is readable and no write fails here.

ConcBatchLen == 3       \* length of the batches the upload threads are given
NumQuestions == 2       \* questions (similarity rankings of the tools) asked
MaxInvocations == 2     \* capabilities the language model invokes in a turn

Uploaders == {"u1", "u2"}

\* The batches of the upload threads: the first ConcBatchLen documents and
\* the last ConcBatchLen documents.
ConcBatches == {Run(1, ConcBatchLen), Run(NumNames - ConcBatchLen + 1, NumNames)}

\* The return value of initialize_agent: "Indexed n documents: ..." with the
\* manifest as it is read then.
initialize_agent_status(m) ==
    LET indexed == get_indexed_files(m)
    IN  IF indexed.exc # "none" THEN Res("raised", 0, <<>>, indexed.exc)
        ELSE Res("indexed", Len(indexed.indexed_files), indexed.indexed_files, "none")

\* The retriever of the agent: the top_k tools most similar to question q.
\* The similarity ranking of question q is the insertion order of the tools
\* rotated by q - 1 places.
retrieve(tools, top_k, q) ==
    LET n == Len(tools)
        k == IF top_k < n THEN top_k ELSE n
    IN  [i \in 1..k |-> tools[((i + q - 2) % n) + 1]]

\* Serving after python app.py on a fresh checkout.
InitConc ==
    /\ proc = "serving"
    /\ fsOrder \in 1..NumListingOrders
    /\ dataRoot = [n \in Stems |-> "none"]
    /\ storage = FALSE
    /\ manifest = NoManifest
    /\ cache = [n \in Stems |-> NoEntry]
    /\ agent = NoAgent
    /\ tool_index = NoToolIndex
    /\ last = Last("startup", Res("nodocs", 0, <<>>, "none"), 0, 0, 0)
    /\ tasks = IdleTasks

\* upload_files, the limit check (app.py 68-74).
UploadCheck(t) ==
    /\ tasks[t].pc = "idle"
    /\ \E files \in ConcBatches :
         \E existing \in {glob_pdf(dataRoot, fsOrder)} :
             IF Len(existing) + Len(files) > MAX_DOCS
             THEN /\ last' = Last("upload", Res("capacity", Len(existing), <<>>, "none"),
                                  0, 0, 0)
                  /\ UNCHANGED tasks
             ELSE /\ tasks' = [tasks EXCEPT ![t] = [pc |-> "copy", files |-> files,
                                                    all_tools |-> <<>>]]
                  /\ UNCHANGED last
    /\ UNCHANGED <<proc, fsOrder, dataRoot, storage, manifest, cache, agent, tool_index>>

\* upload_files, the copy loop (app.py 76-79).
UploadCopy(t) ==
    /\ tasks[t].pc = "copy"
    /\ dataRoot' = CopyAll(dataRoot, tasks[t].files, 1)
    /\ tasks' = [tasks EXCEPT ![t].pc = "build"]
    /\ UNCHANGED <<proc, fsOrder, storage, manifest, cache, agent, tool_index, last>>

\* initialize_agent, the listing and build_all_doc_tools with its manifest
\* write (app.py 44-51).
UploadBuild(t) ==
    /\ tasks[t].pc = "build"
    /\ \E pdf_files \in {glob_pdf(dataRoot, fsOrder)} :
         IF pdf_files = <<>>
         THEN /\ agent' = NoAgent
              /\ tool_index' = NoToolIndex
              /\ tasks' = [tasks EXCEPT ![t] = IdleUpload]
              /\ last' = Last("upload", Res("nodocs", 0, <<>>, "none"), 0, 0, 0)
              /\ UNCHANGED <<storage, manifest, cache>>
         ELSE \E b \in {build_all_doc_tools(pdf_files, dataRoot, storage, manifest,
                                            cache, NoFault)} :
                  /\ storage' = b.storage
                  /\ manifest' = b.manifest
                  /\ cache' = b.cache
                  /\ IF b.exc # "none"
                     THEN /\ tasks' = [tasks EXCEPT ![t] = IdleUpload]
                          /\ last' = Last("upload", Res("raised", 0, <<>>, b.exc),
                                          b.seg, 0, b.logged)
                     ELSE /\ tasks' = [tasks EXCEPT ![t].pc = "tool_index",
                                                    ![t].all_tools = b.all_tools]
                          /\ UNCHANGED last
                  /\ UNCHANGED <<agent, tool_index>>
    /\ UNCHANGED <<proc, fsOrder, dataRoot>>

\* initialize_agent: tool_index = create_tool_index(all_tools) (app.py 52).
UploadBindIndex(t) ==
    /\ tasks[t].pc = "tool_index"
    /\ tool_index' = create_tool_index(tasks[t].all_tools)
    /\ tasks' = [tasks EXCEPT ![t].pc = "agent"]
    /\ UNCHANGED <<proc, fsOrder, dataRoot, storage, manifest, cache, agent, last>>

\* initialize_agent: the retriever over the global tool_index as it is now
\* and the agent (app.py 53-54).  tool_index is None after a clear_documents
\* in between: get_tool_retriever raises.
UploadBindAgent(t) ==
    /\ tasks[t].pc = "agent"
    /\ IF tool_index.bound
       THEN /\ agent' = create_agent(tool_index, TOP_K)
            /\ tasks' = [tasks EXCEPT ![t].pc = "status"]
            /\ UNCHANGED last
       ELSE /\ tasks' = [tasks EXCEPT ![t] = IdleUpload]
            /\ last' = Last("upload", Res("raised", 0, <<>>, "AttributeError"), 0, 0, 0)
            /\ UNCHANGED agent
    /\ UNCHANGED <<proc, fsOrder, dataRoot, storage, manifest, cache, tool_index>>

\* initialize_agent: the status it returns (app.py 56-57, 82-83).
UploadReturn(t) ==
    /\ tasks[t].pc = "status"
    /\ tasks' = [tasks EXCEPT ![t] = IdleUpload]
    /\ last' = Last("upload", initialize_agent_status(manifest), 0, 0, 0)
    /\ UNCHANGED <<proc, fsOrder, dataRoot, storage, manifest, cache, agent, tool_index>>

\* clear_documents: unlink every PDF (app.py 94-95).
ClearUnlink ==
    /\ tasks.c.pc = "idle"
    /\ dataRoot' = [n \in Stems |-> "none"]
    /\ tasks' = [tasks EXCEPT !.c.pc = "rmtree"]
    /\ UNCHANGED <<proc, fsOrder, storage, manifest, cache, agent, tool_index, last>>

\* clear_documents: remove storage/ if it exists (app.py 98-100).
ClearRmtree ==
    /\ tasks.c.pc = "rmtree"
    /\ storage' = FALSE
    /\ manifest' = IF storage THEN NoManifest ELSE manifest
    /\ cache' = IF storage THEN [n \in Stems |-> NoEntry] ELSE cache
    /\ tasks' = [tasks EXCEPT !.c.pc = "unbind"]
    /\ UNCHANGED <<proc, fsOrder, dataRoot, agent, tool_index, last>>

\* clear_documents: agent = None, tool_index = None (app.py 102-104).
ClearUnbind ==
    /\ tasks.c.pc = "unbind"
    /\ agent' = NoAgent
    /\ tool_index' = NoToolIndex
    /\ tasks' = [tasks EXCEPT !.c = IdleClear]
    /\ last' = Last("clear", Res("cleared", 0, <<>>, "none"), 0, 0, 0)
    /\ UNCHANGED <<proc, fsOrder, dataRoot, storage, manifest, cache>>

\* respond: the test of the global agent and the call chat(agent, message),
\* which hands the agent object bound now to the turn (app.py 129-137).
AskStart ==
    /\ tasks.a.pc = "idle"
    /\ IF ~agent.bound
       THEN /\ last' = Last("ask", Res("please_upload", 0, <<>>, "none"), 0, 0, 0)
            /\ UNCHANGED tasks
       ELSE /\ tasks' = [tasks EXCEPT !.a = [pc |-> "retrieve", agent |-> agent,
                                             candidates |-> <<>>, invoked |-> <<>>]]
            /\ UNCHANGED last
    /\ UNCHANGED <<proc, fsOrder, dataRoot, storage, manifest, cache, agent, tool_index>>

\* agent.run: the tool retriever of the agent object fetches the candidate
\* capabilities for the question.
AskRetrieve ==
    /\ tasks.a.pc = "retrieve"
    /\ \E q \in 1..NumQuestions :
         tasks' = [tasks EXCEPT !.a.pc = "act",
                                !.a.candidates = retrieve(tasks.a.agent.tools,
                                                          tasks.a.agent.top_k, q)]
    /\ UNCHANGED <<proc, fsOrder, dataRoot, storage, manifest, cache, agent, tool_index,
                   last>>

\* agent.run: the language model invokes one of the capabilities it was given.
AskInvoke ==
    /\ tasks.a.pc = "act"
    /\ Len(tasks.a.invoked) < MaxInvocations
    /\ \E i \in 1..Len(tasks.a.candidates) :
         tasks' = [tasks EXCEPT !.a.invoked = Append(@, tasks.a.candidates[i])]
    /\ UNCHANGED <<proc, fsOrder, dataRoot, storage, manifest, cache, agent, tool_index,
                   last>>

\* agent.run returns the answer, or raises and respond returns the error
\* text (app.py 137-142, agent.py 41-54).
AskFinish ==
    /\ tasks.a.pc \in {"retrieve", "act"}
    /\ \E turn \in Turns :
         /\ tasks.a.pc = "retrieve" => turn # "ok"
         /\ \E r \in {respond(tasks.a.agent, turn)} :
                last' = Last("ask", r.res, 0, r.llm + Len(tasks.a.invoked), 0)
    /\ tasks' = [tasks EXCEPT !.a = IdleAsk]
    /\ UNCHANGED <<proc, fsOrder, dataRoot, storage, manifest, cache, agent, tool_index>>

NextConc ==
    \/ \E t \in Uploaders : UploadCheck(t)
    \/ \E t \in Uploaders : UploadCopy(t)
    \/ \E t \in Uploaders : UploadBuild(t)
    \/ \E t \in Uploaders : UploadBindIndex(t)
    \/ \E t \in Uploaders : UploadBindAgent(t)
    \/ \E t \in Uploaders : UploadReturn(t)
    \/ ClearUnlink
    \/ ClearRmtree
    \/ ClearUnbind
    \/ GetStatus
    \/ Respond

SpecConc == InitConc /\ [][NextConc]_vars

NextTurn ==
    \/ UploadCheck("u1")
    \/ UploadCopy("u1")
    \/ UploadBuild("u1")
    \/ UploadBindIndex("u1")
    \/ UploadBindAgent("u1")
    \/ UploadReturn("u1")
    \/ ClearUnlink
    \/ ClearRmtree
    \/ ClearUnbind
    \/ AskStart
    \/ AskRetrieve
    \/ AskInvoke
    \/ AskFinish

SpecTurn == InitConc /\ [][NextTurn]_vars

\* ---- the claims ------------------------------------------------------------

\* upload_files(files) called in the current state under write fault ft.
Upload(files, ft) ==
    upload_files(files, dataRoot, storage, manifest, cache, agent, tool_index,
                 fsOrder, ft)

\* The identities of a batch, in batch order.
StemsOf(files) == [i \in 1..Len(files) |-> get_doc(DataPath(files[i].stem))]

\* The identities of a list of paths.
DocNames(pdf_paths) == [i \in 1..Len(pdf_paths) |-> get_doc(pdf_paths[i])]

NoDuplicates(q) == Cardinality(Range(q)) = Len(q)

\* C1 as stated: in every state, for every batch of at most 5 documents that
\* ingest accepts, the status after the ingest reports exactly the identities
\* of the batch, in batch order.
C1_StatusReportsBatchInOrder ==
    \A files \in Batches :
        (proc = "serving" /\ files # <<>> /\ Len(files) <= MAX_DOCS) =>
            \A u \in {Upload(files, NoFault)} :
                u.res.kind = "indexed" => get_status(u.manifest).names = StemsOf(files)

\* C1 amended: in every state, for every batch of at most 5 documents for
\* which ingest returns its "Indexed ..." message, the status after the ingest
\* is that same message and reports, each once and in directory listing
\* order, the identities of all documents of the data root: those that were
\* there before the ingest and those of the batch.
C1_StatusReportsDataRoot ==
    \A files \in Batches, ft \in FaultChoices :
        (proc = "serving" /\ files # <<>> /\ Len(files) <= MAX_DOCS) =>
            \A u \in {Upload(files, ft)} :
                u.res.kind = "indexed" =>
                    /\ get_status(u.manifest) = u.res
                    /\ u.res.count = Len(u.res.names)
                    /\ Range(u.res.names) = Present(dataRoot) \cup Range(StemsOf(files))
                    /\ NoDuplicates(u.res.names)
                    /\ u.res.names = DocNames(ListDir(Range(u.res.names), fsOrder))

\* C1 witness: an ingest has returned "Indexed 2 documents" with the names
\* in descending order, and the status reads the same.
C1_Witness ==
    /\ last.op = "upload" /\ last.res.kind = "indexed" /\ last.res.count = 2
    /\ last.res.names[1] > last.res.names[2]
    /\ get_status(manifest) = last.res

\* C2: in every state, every ingest whose resulting corpus (the documents
\* present plus those of the batch) would exceed 5 documents is rejected with
\* the capacity message, and every rejected ingest leaves the data root, the
\* cache, the manifest, storage/ and the bound agent as they were.
C2_CapacityRejection ==
    \A files \in Batches, ft \in FaultChoices :
        \A u \in {Upload(files, ft)} :
            /\ Cardinality(Present(dataRoot) \cup Range(StemsOf(files))) > MAX_DOCS
                   => (u.res.kind = "capacity"
                       /\ u.res.count = Cardinality(Present(dataRoot)))
            /\ u.res.kind = "capacity" =>
                   /\ u.dataRoot = dataRoot /\ u.cache = cache
                   /\ u.manifest = manifest /\ u.storage = storage
                   /\ u.agent = agent /\ u.tool_index = tool_index
                   /\ u.seg = 0

\* C2 witness: an ingest on top of 5 documents has been rejected, and the 5
\* documents and their agent are still there.
C2_Witness ==
    /\ last.op = "upload" /\ last.res.kind = "capacity" /\ last.res.count = MAX_DOCS
    /\ Cardinality(Present(dataRoot)) = MAX_DOCS
    /\ agent.bound /\ Len(agent.tools) = 2 * MAX_DOCS

\* C3 as stated: in every state, for every set of at most 5 documents that
\* ingest accepts, a second ingest of the same set right after the first is
\* accepted too, leaves the agent's capabilities and the manifest as the first
\* left them, and invokes the segmentation service zero times.
C3_IngestTwiceIdempotent ==
    \A files \in Batches :
        (proc = "serving" /\ files # <<>> /\ Len(files) <= MAX_DOCS
                          /\ NoDuplicates(StemsOf(files))) =>
            \A u1 \in {Upload(files, NoFault)} :
                u1.res.kind = "indexed" =>
                    \A u2 \in {upload_files(files, u1.dataRoot, u1.storage, u1.manifest,
                                            u1.cache, u1.agent, u1.tool_index,
                                            fsOrder, NoFault)} :
                        /\ u2.res.kind = "indexed"
                        /\ u2.agent = u1.agent
                        /\ u2.manifest = u1.manifest
                        /\ u2.seg = 0

\* C4: in every state without a bound agent, ask returns the fixed "please
\* upload documents" message and does not invoke the language-model provider,
\* whatever the agent run would have done; and no agent is bound while the
\* data root is empty and right after clear.
C4_AskWithoutAgent ==
    /\ ~agent.bound =>
           \A turn \in Turns :
               respond(agent, turn) =
                   [res |-> Res("please_upload", 0, <<>>, "none"), llm |-> 0]
    /\ (last.op = "ask" /\ ~agent.bound) =>
           (last.res.kind = "please_upload" /\ last.llm = 0)
    /\ (last.op = "clear" \/ Present(dataRoot) = {}) => ~agent.bound

\* C4 witness: ask has answered "please upload documents" in a serving
\* process, without a call of the language-model provider.
C4_Witness ==
    /\ proc = "serving" /\ ~agent.bound
    /\ last.op = "ask" /\ last.res.kind = "please_upload" /\ last.llm = 0

\* C5: in every state right after clear, the data root holds no document,
\* storage/ with the manifest and every cache entry is gone, no agent and no
\* tool index is bound, and status returns the "no documents" message.
C5_ClearRemovesEverything ==
    last.op = "clear" =>
        /\ Present(dataRoot) = {}
        /\ ~storage
        /\ manifest = NoManifest
        /\ \A n \in Stems : cache[n] = NoEntry
        /\ ~agent.bound /\ ~tool_index.bound
        /\ get_status(manifest) = Res("nodocs", 0, <<>>, "none")

\* C5 witness: clear has removed 5 documents.
C5_Witness ==
    /\ last.op = "clear" /\ last.res.kind = "cleared" /\ last.res.count = MAX_DOCS
    /\ Present(dataRoot) = {} /\ ~storage

\* C6: in every state the manifest lists at most 5 identities and the data
\* root holds at most 5 documents.
C6_AtMostFive ==
    /\ Len(manifest.files) <= MAX_DOCS
    /\ Cardinality(Present(dataRoot)) <= MAX_DOCS

\* C6 witness: startup initialisation over a data root of 5 documents has
\* written a manifest of 5 identities.
C6_Witness ==
    /\ last.op = "startup" /\ last.res.kind = "indexed"
    /\ manifest.state = "ok" /\ Len(manifest.files) = MAX_DOCS
    /\ Cardinality(Present(dataRoot)) = MAX_DOCS

\* C7 as stated: in every state right after an ingestion pass (an ingest that
\* invoked the segmentation service, no storage write failing) over a data
\* root that holds an unreadable document next to readable ones, the readable
\* ones are processed: the manifest lists exactly them and the agent is bound
\* to exactly their capabilities.
C7_OtherDocumentsStillProcessed ==
    \A good \in {{n \in Stems : dataRoot[n] \in {"v1", "v2"}}} :
        (/\ last.op = "upload" /\ last.seg >= 1
         /\ last.res.exc # "PersistError"
         /\ \E n \in Stems : dataRoot[n] = "bad"
         /\ good # {}) =>
            /\ manifest.state = "ok"
            /\ Range(manifest.files) = good
            /\ agent.bound
            /\ {t.doc : t \in Range(agent.tools)} = good

\* C8 as stated: no operation and no startup initialisation ends with an
\* exception leaving it; each returns a text.
C8_NoUncaughtError ==
    last.res.kind # "raised"

\* C9: with an agent bound, ask returns a text whatever the agent run does:
\* the answer, or an error text when the run raises (and never an exception);
\* and an ask leaves the agent and the tool index as they were.
C9_AskAlwaysReturnsText ==
    /\ [](/\ agent.bound =>
                \A turn \in Turns :
                    /\ respond(agent, turn).res.kind \in {"answer", "error_text"}
                    /\ turn # "ok" => respond(agent, turn).res.kind = "error_text"
          /\ last.op = "ask" =>
                last.res.kind \in {"answer", "error_text", "please_upload"})
    /\ [][last'.op = "ask" => (agent' = agent /\ tool_index' = tool_index)]_vars

\* C9 witness: with an agent bound, a failed agent run has been answered with
\* an error text.
C9_Witness ==
    /\ agent.bound /\ last.op = "ask" /\ last.res.kind = "error_text" /\ last.llm = 1

\* A cache entry that load_doc_index cannot load: a subtree is missing or
\* does not deserialize.
Unloadable(e) == e.vector # "ok" \/ e.summary # "ok"

\* The cache with every unloadable entry removed.
WithoutUnloadable(c) == [n \in Stems |-> IF Unloadable(c[n]) THEN NoEntry ELSE c[n]]

\* C10: in every state, the cache lookup of an entry with a missing or
\* undeserializable subtree returns "absent"; and every ingest gives the same
\* result, manifest, agent and segmentation calls as it gives with those
\* entries removed (a plain miss), and when it succeeds it leaves the same
\* cache, every document of the data root having a loadable entry.
C10_CorruptCacheIsAMiss ==
    /\ \A n \in Stems : Unloadable(cache[n]) => load_doc_index(cache, n) = "absent"
    /\ \A files \in Batches :
         \A u \in {Upload(files, NoFault)},
            v \in {upload_files(files, dataRoot, storage, manifest,
                                WithoutUnloadable(cache), agent, tool_index,
                                fsOrder, NoFault)} :
             /\ u.res = v.res /\ u.manifest = v.manifest /\ u.agent = v.agent
             /\ u.seg = v.seg
             /\ u.res.exc # "CacheCorruptionError"
             /\ (files # <<>> /\ u.res.kind = "indexed") =>
                    /\ u.cache = v.cache
                    /\ \A n \in Present(u.dataRoot) : ~Unloadable(u.cache[n])

\* C10 witness: an ingest has succeeded although the lookup of a cache entry
\* failed to deserialize it (the error was printed) and the document was
\* segmented again.
C10_Witness ==
    /\ last.op = "upload" /\ last.res.kind = "indexed"
    /\ last.logged >= 1 /\ last.seg >= 1
    /\ \A n \in Present(dataRoot) : ~Unloadable(cache[n])

\* C11: in every state, for every identity with a loadable cache entry,
\* rebuild_tools_for_document restores the two capabilities without invoking
\* the segmentation service and without writing the cache, whatever the
\* content of the same-named document is now (validity is keyed on the
\* identity alone); every ingest over documents that all have loadable
\* entries segments nothing and leaves the cache as it was; and every startup
\* initialisation over a data root whose documents all have loadable entries
\* segments nothing and leaves the cache as it was.
C11_CacheHitSkipsSegmentation ==
    /\ [](/\ \A n \in Stems :
                ~Unloadable(cache[n]) =>
                    \A content \in ContentsOf(n), pt \in {"none", "vector", "summary"} :
                        \A t \in {rebuild_tools_for_document(cache, DataPath(n),
                                                              content, pt)} :
                            /\ t.exc = "none" /\ t.tools = DocTools(n)
                            /\ t.seg = 0 /\ t.wrote = 0 /\ t.cache = cache
          /\ \A files \in Batches :
                (\A n \in Present(dataRoot) \cup Range(StemsOf(files)) :
                     ~Unloadable(cache[n])) =>
                    \A u \in {Upload(files, NoFault)} :
                        u.seg = 0 /\ u.cache = cache)
    /\ [][(/\ proc = "down" /\ last'.op = "startup"
            /\ \A n \in Present(dataRoot) : ~Unloadable(cache[n]))
               => (last'.seg = 0 /\ cache' = cache)]_vars

\* C11 witness: after a restart, startup initialisation has bound the agent
\* without a call of the segmentation service, over a data root in which a
\* document was re-uploaded with revised content under the name of a cached
\* one: its cache entry is still the one built from the first content.
C11_Witness ==
    /\ last.op = "startup" /\ last.res.kind = "indexed" /\ last.seg = 0
    /\ agent.bound
    /\ \E n \in Stems : dataRoot[n] = "v2" /\ cache[n].src = "v1"
                          /\ ~Unloadable(cache[n])

\* C12: in every state, every rebuild_tools_for_document that returns without
\* an exception leaves a cache entry with both index subtrees for the
\* document's identity (a miss writes it, a hit found it); and in every state
\* right after a successful ingest or startup initialisation the manifest is
\* readable and every identity it lists has a cache entry with both subtrees.
C12_ManifestIdentitiesAreCached ==
    /\ \A n \in Stems :
           \A content \in ContentsOf(n), pt \in {"none", "vector", "summary"} :
               \A t \in {rebuild_tools_for_document(cache, DataPath(n), content, pt)} :
                   t.exc = "none" =>
                       (t.cache[n].vector = "ok" /\ t.cache[n].summary = "ok")
    /\ (last.op \in {"upload", "startup"} /\ last.res.kind = "indexed") =>
           /\ manifest.state = "ok"
           /\ \A i \in 1..Len(manifest.files) :
                  /\ cache[manifest.files[i]].vector = "ok"
                  /\ cache[manifest.files[i]].summary = "ok"

\* C12 witness: an ingest that segmented documents (cache misses) has
\* succeeded, and the 2 or more identities of its manifest all have a cache
\* entry.
C12_Witness ==
    /\ last.op = "upload" /\ last.res.kind = "indexed" /\ last.seg >= 2
    /\ manifest.state = "ok" /\ Len(manifest.files) >= 2
    /\ \A i \in 1..Len(manifest.files) : ~Unloadable(cache[manifest.files[i]])

\* The capabilities vector_d, summary_d of the identities ids, two per
\* identity, in the order of ids.
CapabilitiesOf(ids) ==
    [i \in 1..(2 * Len(ids)) |-> DocTools(ids[(i + 1) \div 2])[2 - (i % 2)]]

\* C13 as stated: in every state of the serving process (no operation is in
\* progress between two handlers), either no agent is bound and the manifest
\* lists nothing, or the manifest is readable and the agent is bound to a
\* tool index whose capabilities are exactly vector_d and summary_d of each
\* identity d of the manifest, two per identity, in manifest order.
C13_AgentMatchesManifest ==
    proc = "serving" =>
        \/ /\ ~agent.bound /\ ~tool_index.bound
           /\ manifest.state # "corrupt" /\ manifest.files = <<>>
        \/ /\ agent.bound /\ tool_index.bound
           /\ manifest.state = "ok" /\ manifest.files # <<>>
           /\ tool_index.tools = CapabilitiesOf(manifest.files)
           /\ agent.tools = tool_index.tools

\* C15: an ingest called with no files returns the status and leaves the data
\* root, storage/, the cache, the manifest, the tool index and the agent as
\* they were, in every state and whether the status can be read or not; and
\* every ask and every status, answered or failed, leaves all of them as they
\* were.
C15_ReadOnlyOperations ==
    /\ [](\A ft \in FaultChoices :
             \A u \in {Upload(<<>>, ft)} :
                 /\ u.res = get_status(manifest)
                 /\ u.dataRoot = dataRoot /\ u.storage = storage
                 /\ u.cache = cache /\ u.manifest = manifest
                 /\ u.tool_index = tool_index /\ u.agent = agent
                 /\ u.seg = 0 /\ u.struck = 0)
    /\ [][last'.op \in {"ask", "status"} =>
             /\ dataRoot' = dataRoot /\ storage' = storage
             /\ cache' = cache /\ manifest' = manifest
             /\ tool_index' = tool_index /\ agent' = agent]_vars

\* C15 witness: a status has failed (the manifest cannot be read) in a
\* process whose agent is bound, and the agent and the documents are still
\* there.
C15_Witness ==
    /\ last.op = "status" /\ last.res.kind = "raised"
    /\ agent.bound /\ tool_index.bound /\ Present(dataRoot) # {}

\* C17: in every state the manifest lists no identity twice and no two
\* capabilities of the tool index, or of the agent, share a name; and every
\* ingest, of whatever batch (two files of the same filename, a file named
\* like a document ingested before), leaves them so.
C17_IdentitiesUnique ==
    /\ NoDuplicates(manifest.files)
    /\ NoDuplicates(tool_index.tools) /\ NoDuplicates(agent.tools)
    /\ \A files \in Batches :
           \A u \in {Upload(files, NoFault)} :
               /\ NoDuplicates(u.manifest.files)
               /\ NoDuplicates(u.tool_index.tools) /\ NoDuplicates(u.agent.tools)

\* C17 witness: an ingest has succeeded over a data root in which a file was
\* uploaded under the name of a document ingested before (its content is the
\* revised one, its cache entry the earlier one), and the manifest of 2 or
\* more identities lists each once.
C17_Witness ==
    /\ last.op = "upload" /\ last.res.kind = "indexed"
    /\ \E n \in Stems : dataRoot[n] = "v2" /\ cache[n].src = "v1"
    /\ Len(manifest.files) >= 2 /\ NoDuplicates(manifest.files)
    /\ Len(agent.tools) = 2 * Len(manifest.files) /\ NoDuplicates(agent.tools)

\* C18 as stated: in every state of the serving process the identities of
\* the manifest are those of the documents in the data root; and every ingest
\* that ends with an exception leaves the data root, the manifest and the
\* agent as they were before the call.
C18_ManifestMatchesDataRoot ==
    /\ proc = "serving" => Range(manifest.files) = Present(dataRoot)
    /\ \A files \in Batches, ft \in FaultChoices :
           \A u \in {Upload(files, ft)} :
               (proc = "serving" /\ u.res.kind = "raised") =>
                   (u.dataRoot = dataRoot /\ u.manifest = manifest /\ u.agent = agent)

\* An ingest or a clear is between its first and its last step.
MutatorInProgress ==
    \/ \E t \in Uploaders : tasks[t].pc # "idle"
    \/ tasks.c.pc # "idle"

\* The manifest, the data root and the bound agent agree.
CorpusConsistent ==
    /\ manifest.state # "corrupt"
    /\ Range(manifest.files) = Present(dataRoot)
    /\ agent.bound = tool_index.bound
    /\ agent.tools = CapabilitiesOf(manifest.files)
    /\ tool_index.tools = agent.tools

\* C14 as stated: with the handlers in worker threads, every step in which an
\* ask or a status executes is taken while no ingest and no clear is between
\* its first and its last step, and in a state where the manifest, the data
\* root and the bound agent agree.
C14_MutationsAtomicForObservers ==
    [][(last' # last /\ last'.op \in {"ask", "status"}) =>
           (~MutatorInProgress /\ CorpusConsistent)]_vars

\* C19 as stated: with two ingests in worker threads, in every state the data
\* root holds at most 5 documents and the manifest lists at most 5
\* identities, and while an ingest that passed the limit check has not yet
\* copied its files, the documents present and its batch together are still
\* at most 5.
C19_ConcurrentIngestsWithinCapacity ==
    /\ \A t \in Uploaders :
           tasks[t].pc = "copy" =>
               Cardinality(Present(dataRoot)) + Len(tasks[t].files) <= MAX_DOCS
    /\ Cardinality(Present(dataRoot)) <= MAX_DOCS
    /\ Len(load_manifest(manifest).indexed_files) <= MAX_DOCS

\* C16 as stated: in every ask turn that found an agent bound, nothing is
\* retrieved or invoked before the retrieval step; the candidate set
\* retrieved has at most top_k = 2 capabilities, all of them capabilities of
\* the tool index bound at the time; every capability invoked is one of the
\* candidates and is invoked after the retrieval; and the answer is returned
\* by the step that ends the turn, after the retrieval and after every
\* invocation.
C16_TurnUsesRetrievedCandidates ==
    /\ [](/\ tasks.a.pc = "idle" => (tasks.a.candidates = <<>> /\ tasks.a.invoked = <<>>)
          /\ tasks.a.pc = "retrieve" =>
                (tasks.a.agent.bound /\ tasks.a.candidates = <<>>
                 /\ tasks.a.invoked = <<>>)
          /\ tasks.a.pc = "act" => tasks.a.agent.bound
          /\ Len(tasks.a.candidates) <= TOP_K
          /\ Range(tasks.a.candidates) \subseteq Range(tool_index.tools)
          /\ Range(tasks.a.invoked) \subseteq Range(tasks.a.candidates))
    /\ [][/\ (tasks.a.pc = "idle" /\ tasks'.a.pc # "idle") =>
                (agent.bound /\ tasks'.a.agent = agent /\ tasks'.a.pc = "retrieve")
          /\ tasks'.a.invoked # tasks.a.invoked =>
                \/ tasks'.a.pc = "idle"
                \/ /\ tasks.a.pc = "act" /\ tasks'.a.pc = "act"
                   /\ tasks'.a.candidates = tasks.a.candidates
                   /\ \E c \in Range(tasks.a.candidates) :
                          tasks'.a.invoked = Append(tasks.a.invoked, c)
          /\ (last' # last /\ last'.op = "ask" /\ last'.res.kind = "answer") =>
                (/\ tasks.a.pc = "act" /\ tasks'.a.pc = "idle"
                 /\ last'.llm = 1 + Len(tasks.a.invoked))]_vars

====
